---------------------------- MODULE Spec2Model ----------------------------
(***************************************************************************)
(* Model of service-finder.py: the meta-browse for service types, one      *)
(* instance browser (MyListener) per type-discovery event, the per-instance*)
(* lookup with its name-resolution chain, and the SIGINT shutdown path.    *)
(*                                                                         *)
(* Strings are sequences of one-character strings, so that endswith, len,  *)
(* strip and concatenation are computed and not assumed.  A colour code    *)
(* (colorama's Fore.X) is one element of a rendered line.                  *)
(***************************************************************************)
EXTENDS Integers, Sequences, FiniteSets, TLC

(***************************************************************************)
(* Bounds of the model.                                                    *)
(***************************************************************************)
\* callbacks the engine dispatches in one run
MaxEvents == 4
\* instance browsers (and MyListener objects) created in one run
MaxBrowsers == 2
\* SIGINTs delivered in one run
MaxSignals == 2
\* callbacks dispatched in a run that is interrupted
MaxCancelEvents == 3
\* callbacks dispatched in a run with concurrent callbacks
MaxConcEvents == 3
\* longest input of the normalizer specification
MaxNormLen == 5

(***************************************************************************)
(* Strings.                                                                *)
(***************************************************************************)
\* Python's None, for a local that holds either None or a string
None == <<"None">>

\* a truth test that takes None for an address
Truthy_Always(x) == x # <<>>

\* truth value of `x` for a local that holds None or a string
Truthy(x) == x # None /\ x # <<>>

\* str.endswith for a one-character suffix
EndsWith(s, c) == Len(s) > 0 /\ s[Len(s)] = c

\* ' ' * k  (the empty string when k <= 0)
Spaces(k) == IF k <= 0 THEN <<>> ELSE [i \in 1..k |-> " "]

\* c repeated k times
Rep(c, k) == [i \in 1..k |-> c]

Whitespace == {" ", "\t", "\n", "\r"}

RECURSIVE LStrip(_)
LStrip(s) == IF s # <<>> /\ Head(s) \in Whitespace THEN LStrip(Tail(s)) ELSE s

RECURSIVE RStrip(_)
RStrip(s) ==
    IF s # <<>> /\ s[Len(s)] \in Whitespace
    THEN RStrip(SubSeq(s, 1, Len(s) - 1))
    ELSE s

\* str.strip()
Strip(s) == RStrip(LStrip(s))

Digits == <<"0", "1", "2", "3", "4", "5", "6", "7", "8", "9">>

\* decimal rendering of a byte, without leading zeros
RECURSIVE Dec(_)
Dec(n) == IF n < 10 THEN <<Digits[n + 1]>> ELSE Dec(n \div 10) \o <<Digits[(n % 10) + 1]>>

\* socket.inet_ntoa: four raw bytes to dotted-decimal
inet_ntoa(raw) ==
    Dec(raw[1]) \o <<".">> \o Dec(raw[2]) \o <<".">> \o Dec(raw[3]) \o <<".">> \o Dec(raw[4])

(***************************************************************************)
(* The normalizers.                                                        *)
(***************************************************************************)
\* MyListener.format_service_type
MyListener_format_service_type(service_type) ==
    IF ~EndsWith(service_type, ".") THEN service_type \o <<".">> ELSE service_type

\* MyListener.format_service_name
MyListener_format_service_name(service_name) ==
    IF ~EndsWith(service_name, ".") THEN service_name \o <<".">> ELSE service_name

\* a type driver that appends the separator without looking
ServiceTypeListener_format_service_type_Always(service_type) == service_type \o <<".">>

\* ServiceTypeListener.format_service_type
ServiceTypeListener_format_service_type(service_type) ==
    IF ~EndsWith(service_type, ".") THEN service_type \o <<".">> ELSE service_type

(***************************************************************************)
(* Rendering.                                                              *)
(***************************************************************************)
sService == <<"S", "e", "r", "v", "i", "c", "e", " ">>
sIP == <<"I", "P", ":", " ">>
sName == <<"N", "a", "m", "e", ":", " ">>

\* MyListener.format_output; max_ip_length is the listener's attribute
format_output(max_ip_length, name, address, device_name) ==
    LET name_spacing == Spaces(60 - Len(name) + 4)
    IN  <<"Fore.GREEN">> \o sService \o name \o name_spacing
        \o <<"Fore.CYAN">> \o sIP \o address \o Spaces(max_ip_length - Len(address) + 4)
        \o <<"Fore.MAGENTA">> \o sName \o device_name

\* an assignment of the last length instead of the maximum
Max_Last(a, b) == b

\* Python's max on two integers
Max(a, b) == IF a >= b THEN a ELSE b


(***************************************************************************)
(* Inputs: what the engine, the resolvers and the operator can deliver.    *)
(***************************************************************************)
T_http == <<"_", "h">>
T_http_dot == <<"_", "h", ".">>
T_ipp_dot == <<"_", "i", ".">>

\* names carried by type-discovery events
TypeNames == {T_http, T_http_dot, T_ipp_dot}

N_X == <<"X">>
N_X_dot == <<"X", ".">>
N_Long == Rep("L", 65)

\* names carried by instance events
InstanceNames == {N_X, N_X_dot, N_Long}

A_loopback == <<127, 0, 0, 1>>
A_lan == <<10, 0, 0, 2>>

\* what zeroconf.get_service_info does: raises BadTypeInNameException, returns
\* None, or returns an info whose addresses is a list of raw 4-byte addresses
EngineReplies ==
    {[kind |-> "BadTypeInNameException", addresses |-> <<>>],
     [kind |-> "None", addresses |-> <<>>]}
    \cup {[kind |-> "info", addresses |-> a] :
            a \in {<<>>, <<A_loopback>>, <<A_lan>>, <<A_lan, A_loopback>>}}

host_a == <<"h", "o", "s", "t", "-", "a">>
host_b == <<"h", "o", "s", "t", "-", "b">>

\* what socket.gethostbyaddr does: returns (hostname, ...) or raises
DnsReplies ==
    {[kind |-> "hostname", host |-> host_a],
     [kind |-> "herror", host |-> <<>>],
     [kind |-> "gaierror", host |-> <<>>]}

\* what nb.queryIPForName does: returns a name, returns None after the
\* timeout, or raises
NbReplies ==
    {[kind |-> "name", name |-> host_b],
     [kind |-> "None", name |-> None],
     [kind |-> "Exception", name |-> None]}

\* the engine's threads that can run callbacks
Threads == {"t1", "t2"}

\* A ServiceBrowser delivers the events of its listener one after another, and
\* listeners share no state: callbacks that run one after another on one
\* thread reach every state of a listener that overlapping callbacks of
\* different listeners reach.  Spec and SpecCancel run the callbacks on this
\* thread alone
SerialThreads == {"t1"}

sUnknown == <<"U", "n", "k", "n", "o", "w", "n">>

(***************************************************************************)
(* State.                                                                  *)
(***************************************************************************)
VARIABLES
    debug,          \* args.debug
    NetBIOS,        \* TRUE iff `import nmb.NetBIOS` succeeded (lines 9-12)
    main_pc,        \* position of main()
    zeroconf,       \* the global engine handle: "unset", "open", "closing", "closed"
    close_calls,    \* number of calls of zeroconf.close()
    sigint,         \* disposition of SIGINT: "default" or "signal_handler"
    handlers,       \* stack of running signal_handler invocations (positions)
    signals,        \* SIGINTs delivered so far
    exit_status,    \* "running", "0" (sys.exit(0)) or "KeyboardInterrupt"
    listeners,      \* the MyListener objects, one per ServiceBrowser created on line 101
    cb,             \* per engine thread: the callback it is running
    events,         \* callbacks dispatched so far
    norm            \* the normalizer specification's input and results

vars == <<debug, NetBIOS, main_pc, zeroconf, close_calls, sigint, handlers, signals,
          exit_status, listeners, cb, events, norm>>

session_vars == <<main_pc, zeroconf, close_calls, sigint, handlers, signals, exit_status>>

EmptySnapshot == [services |-> <<>>, max_name_length |-> 0]

\* no callback running on the thread
IdleFrame ==
    [pc |-> "idle", method |-> "none", listener |-> 0, service_type |-> <<>>,
     name |-> <<>>, formatted_type |-> <<>>, formatted_name |-> <<>>,
     reply |-> "none", addresses |-> <<>>, address |-> None,
     dns |-> "none", dns_host |-> None, rname |-> None,
     nb |-> "none", nb_query |-> "none", nb_name |-> None,
     device_name |-> None, cur_max |-> 0,
     found |-> FALSE, raised |-> "none", printed |-> <<>>, pre |-> EmptySnapshot]

\* the previous callback of a listener was no add_service or update_service
NoUpdate == [name |-> None, services |-> <<>>]

\* MyListener.__init__ (lines 17-22), with the type its ServiceBrowser browses.
\* `last_update` is history: when the listener's previous callback was an
\* add_service or update_service, its instance name and the registry it found.
\* `longest_stored` is history: the length of the longest name line 43 has
\* stored so far, 0 before the first
NewMyListener(browse_type) ==
    [browse_type |-> browse_type, services |-> <<>>, max_name_length |-> 0,
     max_ip_length |-> 15, last_update |-> NoUpdate, longest_stored |-> 0]

NormIdle == [stage |-> "off", input |-> <<>>, out |-> <<>>, out_dot |-> <<>>, again |-> <<>>]

\* the process before line 129, with the flag of the command line and the
\* outcome of the optional import
Start(flag, imported) ==
    /\ debug = flag
    /\ NetBIOS = imported
    /\ main_pc = "Zeroconf()"
    /\ zeroconf = "unset"
    /\ close_calls = 0
    /\ sigint = "default"
    /\ handlers = <<>>
    /\ signals = 0
    /\ exit_status = "running"
    /\ listeners = <<>>
    /\ cb = [th \in Threads |-> IdleFrame]
    /\ events = 0

Init ==
    /\ \E flag \in BOOLEAN, imported \in BOOLEAN : Start(flag, imported)
    /\ norm = NormIdle

Running == exit_status = "running"

\* one printed line: the f-string of the source and the values it interpolates
Line(text, args) == [text |-> text, args |-> args]

Snapshot(l) == [services |-> l.services, max_name_length |-> l.max_name_length]

(***************************************************************************)
(* Dispatch of callbacks by the engine.  A ServiceBrowser delivers the     *)
(* events of its listener one at a time, from a thread of its own; the     *)
(* browsers of different listeners run side by side.                       *)
(***************************************************************************)
\* the meta-browse of line 133 has been started and the engine is not closed
Browsing ==
    /\ Running
    /\ main_pc \in {"signal.signal", "signal.pause"}
    /\ zeroconf \in {"open", "closing"}

\* no callback of listener `l` (0: the type listener) is running
ListenerFree(l) == \A th \in Threads : cb[th].pc = "idle" \/ cb[th].listener # l

CanDispatch(th, l, budget) ==
    /\ Browsing
    /\ events < budget
    /\ cb[th].pc = "idle"
    /\ ListenerFree(l)

\* the engine calls add_service / update_service / remove_service of a MyListener
DispatchInstance(th, l, method, name, budget) ==
    /\ CanDispatch(th, l, budget)
    /\ l \in 1..Len(listeners)
    /\ cb' = [cb EXCEPT ![th] =
                [IdleFrame EXCEPT
                    !.pc = method,
                    !.method = method,
                    !.listener = l,
                    !.service_type = listeners[l].browse_type,
                    !.name = name,
                    !.pre = Snapshot(listeners[l])]]
    /\ events' = events + 1
    /\ UNCHANGED <<debug, NetBIOS, session_vars, listeners, norm>>

\* the engine calls add_service / update_service / remove_service of the
\* ServiceTypeListener; the discovered type is the `name` argument
DispatchType(th, method, name, budget) ==
    /\ CanDispatch(th, 0, budget)
    /\ method = "add_service" => Len(listeners) < MaxBrowsers
    /\ cb' = [cb EXCEPT ![th] =
                [IdleFrame EXCEPT
                    !.pc = IF method = "add_service" THEN "type_add_service"
                           ELSE "type_pass",
                    !.method = method,
                    !.listener = 0,
                    !.service_type = <<>>,
                    !.name = name]]
    /\ events' = events + 1
    /\ UNCHANGED <<debug, NetBIOS, session_vars, listeners, norm>>

(***************************************************************************)
(* ServiceTypeListener.                                                    *)
(***************************************************************************)
\* the listeners after ServiceBrowser(self.zeroconf, formatted_type, MyListener(...))
StartBrowser(ls, formatted_type) == Append(ls, NewMyListener(formatted_type))

\* ServiceTypeListener.add_service (lines 96-101)
TypeAddService(th) ==
    /\ Running
    /\ cb[th].pc = "type_add_service"
    /\ LET formatted_type == ServiceTypeListener_format_service_type(cb[th].name)
       IN  /\ listeners' = StartBrowser(listeners, formatted_type)
           /\ cb' = [cb EXCEPT
                ![th].formatted_type = formatted_type,
                ![th].printed =
                    <<Line("{Fore.BLUE}Discovered service type: {formatted_type}",
                           <<formatted_type>>)>>
                    \o (IF debug
                        THEN <<Line("{Fore.YELLOW}Creating browser for type: {formatted_type}",
                                    <<formatted_type>>)>>
                        ELSE <<>>),
                ![th].pc = "done"]
    /\ UNCHANGED <<debug, NetBIOS, session_vars, events, norm>>

\* a type listener that drops the records of its browsers on update and removal
TypePass_Forget(th) ==
    /\ Running
    /\ cb[th].pc = "type_pass"
    /\ cb' = [cb EXCEPT ![th].pc = "done"]
    /\ listeners' = [i \in DOMAIN listeners |-> [listeners[i] EXCEPT !.services = <<>>]]
    /\ UNCHANGED <<debug, NetBIOS, session_vars, events, norm>>

\* ServiceTypeListener.update_service / remove_service (lines 103-107): pass
TypePass(th) ==
    /\ Running
    /\ cb[th].pc = "type_pass"
    /\ cb' = [cb EXCEPT ![th].pc = "done"]
    /\ UNCHANGED <<debug, NetBIOS, session_vars, listeners, events, norm>>

(***************************************************************************)
(* MyListener.add_service and MyListener.update_service.                   *)
(***************************************************************************)
\* lines 29-30: add_service calls update_service with its own arguments, and
\* does nothing else
AddService(th) ==
    /\ Running
    /\ cb[th].pc = "add_service"
    /\ cb' = [cb EXCEPT ![th].method = "update_service", ![th].pc = "update_service"]
    /\ UNCHANGED <<debug, NetBIOS, session_vars, listeners, events, norm>>

\* an update_service that stores a placeholder for an info without address
FirstAddress_Placeholder(addresses) ==
    IF addresses # <<>> THEN inet_ntoa(addresses[1]) ELSE inet_ntoa(<<0, 0, 0, 0>>)

\* line 40: the dotted form of the first address, or None
FirstAddress(addresses) == IF addresses # <<>> THEN inet_ntoa(addresses[1]) ELSE None

\* lines 33-41 and 46-52: normalize, ask the engine, pick the address
UpdateLookup(th) ==
    /\ Running
    /\ cb[th].pc = "update_service"
    /\ \E reply \in EngineReplies :
        LET f == cb[th]
            formatted_type == MyListener_format_service_type(f.service_type)
            formatted_name == MyListener_format_service_name(f.name)
            attempt ==
                IF debug
                THEN <<Line("{Fore.YELLOW}Attempting to get service info for type: {formatted_type}, name: {formatted_name}",
                            <<formatted_type, formatted_name>>)>>
                ELSE <<>>
            address == FirstAddress(reply.addresses)
            g == [f EXCEPT !.formatted_type = formatted_type,
                           !.formatted_name = formatted_name,
                           !.reply = reply.kind,
                           !.addresses = reply.addresses]
        IN  cb' = [cb EXCEPT ![th] =
              CASE reply.kind = "BadTypeInNameException" ->
                    [g EXCEPT
                        !.printed = attempt \o
                            (IF debug
                             THEN <<Line("{Fore.RED}BadTypeInNameException for type: {formatted_type}, name: {formatted_name} - {e}",
                                         <<formatted_type, formatted_name>>)>>
                             ELSE <<>>),
                        !.pc = "done"]
                [] reply.kind = "None" ->
                    [g EXCEPT
                        !.printed = attempt \o
                            <<Line("{Fore.YELLOW}No info found for service {name}", <<f.name>>)>>,
                        !.pc = "done"]
                [] OTHER ->
                    IF Truthy(address)
                    THEN [g EXCEPT !.printed = attempt,
                                   !.address = address,
                                   !.pc = "gethostbyaddr"]
                    ELSE [g EXCEPT
                            !.printed = attempt \o
                                <<Line("{Fore.YELLOW}Service {name} has no address", <<f.name>>)>>,
                            !.pc = "done"]]
    /\ UNCHANGED <<debug, NetBIOS, session_vars, listeners, events, norm>>

(***************************************************************************)
(* MyListener.resolve_device_name (lines 54-73), called on line 42.        *)
(***************************************************************************)
\* line 62: whether the NetBIOS step is entered
WantsNetBIOS(name, netbios) == ~Truthy(name) /\ netbios

\* line 73
ResolveReturn(name) == IF Truthy(name) THEN name ELSE sUnknown

\* lines 55-62 (and 73 when the NetBIOS step is skipped)
ResolveDns(th) ==
    /\ Running
    /\ cb[th].pc = "gethostbyaddr"
    /\ \E r \in DnsReplies :
        LET name == IF r.kind = "hostname" THEN r.host ELSE None
            dns == IF r.kind = "hostname" THEN "hostname" ELSE "failed"
        IN  cb' = [cb EXCEPT ![th] =
              IF WantsNetBIOS(name, NetBIOS)
              THEN [@ EXCEPT !.dns = dns, !.dns_host = name, !.rname = name,
                             !.pc = "NetBIOS()"]
              ELSE [@ EXCEPT !.dns = dns, !.dns_host = name, !.rname = name,
                             !.device_name = ResolveReturn(name), !.pc = "store"]]
    /\ UNCHANGED <<debug, NetBIOS, session_vars, listeners, events, norm>>

\* line 64: the client is constructed outside the try; a failure leaves
\* resolve_device_name and, not being a BadTypeInNameException, update_service
NbNew(th) ==
    /\ Running
    /\ cb[th].pc = "NetBIOS()"
    /\ \E ok \in BOOLEAN :
        cb' = [cb EXCEPT ![th] =
              IF ok
              THEN [@ EXCEPT !.nb = "open", !.pc = "queryIPForName"]
              ELSE [@ EXCEPT !.raised = "OSError", !.pc = "done"]]
    /\ UNCHANGED <<debug, NetBIOS, session_vars, listeners, events, norm>>

\* a resolver that closes the client after the try instead of in a finally
AfterQuery_NoFinally(kind) == IF kind = "Exception" THEN "store" ELSE "nb.close"

\* where control goes after the query: the finally clause (lines 70-71) on
\* every way out of the try
AfterQuery(kind) == "nb.close"

\* lines 65-69
NbQuery(th) ==
    /\ Running
    /\ cb[th].pc = "queryIPForName"
    /\ \E r \in NbReplies :
        cb' = [cb EXCEPT ![th] =
              [@ EXCEPT
                !.nb_query = r.kind,
                !.nb_name = r.name,
                !.rname = IF r.kind = "Exception" THEN @ ELSE r.name,
                !.printed =
                    IF r.kind = "Exception" /\ debug
                    THEN @ \o <<Line("{Fore.RED}NetBIOS lookup failed for IP {ip}: {e}",
                                     <<cb[th].address>>)>>
                    ELSE @,
                !.device_name =
                    IF AfterQuery(r.kind) = "nb.close" THEN @
                    ELSE ResolveReturn(IF r.kind = "Exception" THEN cb[th].rname ELSE r.name),
                !.pc = AfterQuery(r.kind)]]
    /\ UNCHANGED <<debug, NetBIOS, session_vars, listeners, events, norm>>

\* lines 70-73: nb.close() in the finally clause; a failure of close leaves
\* resolve_device_name and update_service
NbClose(th) ==
    /\ Running
    /\ cb[th].pc = "nb.close"
    /\ \E ok \in BOOLEAN :
        cb' = [cb EXCEPT ![th] =
              IF ok
              THEN [@ EXCEPT !.nb = "closed",
                             !.device_name = ResolveReturn(cb[th].rname),
                             !.pc = "store"]
              ELSE [@ EXCEPT !.nb = "close_raised", !.raised = "OSError", !.pc = "done"]]
    /\ UNCHANGED <<debug, NetBIOS, session_vars, listeners, events, norm>>

(***************************************************************************)
(* MyListener.update_service, lines 43-45, and MyListener.remove_service.  *)
(***************************************************************************)
\* an insertion that keeps the record a name already has
PutService_KeepFirst(services, name, address) ==
    [m \in DOMAIN services \cup {name} |-> IF m \in DOMAIN services THEN services[m] ELSE address]

\* self.services[name] = address
PutService(services, name, address) ==
    [m \in DOMAIN services \cup {name} |-> IF m = name THEN address ELSE services[m]]

\* a removal keyed by the normalized name
DelService_Normalized(services, name) ==
    [m \in DOMAIN services \ {MyListener_format_service_name(name)} |-> services[m]]

\* a removal that empties the registry
DelService_Clear(services, name) == [m \in {} |-> services[m]]

\* del self.services[name]
DelService(services, name) == [m \in DOMAIN services \ {name} |-> services[m]]

\* line 43, and the right-hand side of line 44: the record is stored and the
\* running maximum is read and compared
Store(th) ==
    /\ Running
    /\ cb[th].pc = "store"
    /\ listeners' = [listeners EXCEPT
                        ![cb[th].listener].services =
                            PutService(@, cb[th].name, cb[th].address),
                        ![cb[th].listener].longest_stored =
                            IF Len(cb[th].name) > @ THEN Len(cb[th].name) ELSE @]
    /\ cb' = [cb EXCEPT
                ![th].cur_max = Max(listeners[cb[th].listener].max_name_length, Len(cb[th].name)),
                ![th].pc = "max_write"]
    /\ UNCHANGED <<debug, NetBIOS, session_vars, events, norm>>

\* the assignment of line 44, and line 45: the maximum read before is written
\* and the line is printed
MaxWrite(th) ==
    /\ Running
    /\ cb[th].pc = "max_write"
    /\ listeners' = [listeners EXCEPT ![cb[th].listener].max_name_length = cb[th].cur_max]
    /\ LET f == cb[th]
           text == format_output(listeners[f.listener].max_ip_length,
                                 Strip(f.name), Strip(f.address), Strip(f.device_name))
                   \o <<"\r">>
       IN  cb' = [cb EXCEPT ![th].printed = @ \o <<Line("{format_output}\r", <<text>>)>>,
                            ![th].pc = "done"]
    /\ UNCHANGED <<debug, NetBIOS, session_vars, events, norm>>

\* line 25
RemoveCheck(th) ==
    /\ Running
    /\ cb[th].pc = "remove_service"
    /\ LET found == cb[th].name \in DOMAIN listeners[cb[th].listener].services
       IN  cb' = [cb EXCEPT ![th].found = found,
                            ![th].pc = IF found THEN "del" ELSE "done"]
    /\ UNCHANGED <<debug, NetBIOS, session_vars, listeners, events, norm>>

\* lines 26-27
RemoveDel(th) ==
    /\ Running
    /\ cb[th].pc = "del"
    /\ listeners' = [listeners EXCEPT ![cb[th].listener].services = DelService(@, cb[th].name)]
    /\ cb' = [cb EXCEPT
                ![th].printed = <<Line("{Fore.RED}Service {name} removed", <<cb[th].name>>)>>,
                ![th].pc = "done"]
    /\ UNCHANGED <<debug, NetBIOS, session_vars, events, norm>>

\* the callback returns (or its exception leaves it) and the thread is free
\* again; the listener remembers the callback and the state it had found
Return(th) ==
    /\ Running
    /\ cb[th].pc = "done"
    /\ listeners' =
        IF cb[th].listener = 0 THEN listeners
        ELSE [listeners EXCEPT ![cb[th].listener].last_update =
                IF cb[th].method = "remove_service" THEN NoUpdate
                ELSE [name |-> cb[th].name, services |-> cb[th].pre.services]]
    /\ cb' = [cb EXCEPT ![th] = IdleFrame]
    /\ UNCHANGED <<debug, NetBIOS, session_vars, events, norm>>

(***************************************************************************)
(* main (lines 119-136) and signal_handler (lines 114-117).                *)
(***************************************************************************)
\* main runs only while no signal handler runs on its thread
MainRuns == Running /\ handlers = <<>>

\* lines 128-130
MainOpen ==
    /\ MainRuns
    /\ main_pc = "Zeroconf()"
    /\ zeroconf' = "open"
    /\ main_pc' = "ServiceBrowser"
    /\ UNCHANGED <<debug, NetBIOS, close_calls, sigint, handlers, signals, exit_status,
                   listeners, cb, events, norm>>

\* lines 132-133
MainBrowse ==
    /\ MainRuns
    /\ main_pc = "ServiceBrowser"
    /\ main_pc' = "signal.signal"
    /\ UNCHANGED <<debug, NetBIOS, zeroconf, close_calls, sigint, handlers, signals,
                   exit_status, listeners, cb, events, norm>>

\* lines 135-136: install signal_handler and wait in signal.pause()
MainInstall ==
    /\ MainRuns
    /\ main_pc = "signal.signal"
    /\ sigint' = "signal_handler"
    /\ main_pc' = "signal.pause"
    /\ UNCHANGED <<debug, NetBIOS, zeroconf, close_calls, handlers, signals, exit_status,
                   listeners, cb, events, norm>>

\* the operator's interrupt.  With the default disposition Python raises
\* KeyboardInterrupt in main, which catches nothing; with signal_handler
\* installed a new invocation of it starts on the main thread, on top of
\* whatever runs there (an earlier invocation included)
Sigint ==
    /\ Running
    /\ signals < MaxSignals
    /\ signals' = signals + 1
    /\ IF sigint = "default"
       THEN /\ exit_status' = "KeyboardInterrupt"
            /\ UNCHANGED handlers
       ELSE /\ handlers' = Append(handlers, "print")
            /\ UNCHANGED exit_status
    /\ UNCHANGED <<debug, NetBIOS, main_pc, zeroconf, close_calls, sigint,
                   listeners, cb, events, norm>>

Top == handlers[Len(handlers)]

SetTop(pc) == [handlers EXCEPT ![Len(handlers)] = pc]

\* line 115
HandlerPrint ==
    /\ Running
    /\ handlers # <<>> /\ Top = "print"
    /\ handlers' = SetTop("zeroconf.close")
    /\ UNCHANGED <<debug, NetBIOS, main_pc, zeroconf, close_calls, sigint, signals,
                   exit_status, listeners, cb, events, norm>>

\* line 116, the call: nothing in signal_handler looks at the handle or at an
\* earlier call before calling close
HandlerCloseCall ==
    /\ Running
    /\ handlers # <<>> /\ Top = "zeroconf.close"
    /\ close_calls' = close_calls + 1
    /\ zeroconf' = IF zeroconf = "closed" THEN "closed" ELSE "closing"
    /\ handlers' = SetTop("in close")
    /\ UNCHANGED <<debug, NetBIOS, main_pc, sigint, signals, exit_status,
                   listeners, cb, events, norm>>

\* line 116, close returns
HandlerCloseReturn ==
    /\ Running
    /\ handlers # <<>> /\ Top = "in close"
    /\ zeroconf' = "closed"
    /\ handlers' = SetTop("sys.exit")
    /\ UNCHANGED <<debug, NetBIOS, main_pc, close_calls, sigint, signals, exit_status,
                   listeners, cb, events, norm>>

\* line 117: SystemExit unwinds every frame of the main thread
HandlerExit ==
    /\ Running
    /\ handlers # <<>> /\ Top = "sys.exit"
    /\ exit_status' = "0"
    /\ UNCHANGED <<debug, NetBIOS, main_pc, zeroconf, close_calls, sigint, handlers,
                   signals, listeners, cb, events, norm>>

(***************************************************************************)
(* The specification.                                                      *)
(***************************************************************************)
Methods == {"add_service", "update_service", "remove_service"}

\* the engine's threads: dispatch and the steps of the callbacks
Callbacks(T, budget) ==
    \/ \E th \in T, l \in 1..MaxBrowsers, m \in Methods, n \in InstanceNames :
            DispatchInstance(th, l, m, n, budget)
    \/ \E th \in T, m \in Methods, n \in TypeNames : DispatchType(th, m, n, budget)
    \/ \E th \in T : TypeAddService(th)
    \/ \E th \in T : TypePass(th)
    \/ \E th \in T : AddService(th)
    \/ \E th \in T : UpdateLookup(th)
    \/ \E th \in T : ResolveDns(th)
    \/ \E th \in T : NbNew(th)
    \/ \E th \in T : NbQuery(th)
    \/ \E th \in T : NbClose(th)
    \/ \E th \in T : Store(th)
    \/ \E th \in T : MaxWrite(th)
    \/ \E th \in T : RemoveCheck(th)
    \/ \E th \in T : RemoveDel(th)
    \/ \E th \in T : Return(th)

\* the main thread without an interrupt
Main ==
    \/ MainOpen
    \/ MainBrowse
    \/ MainInstall

\* the operator's interrupt and the handler it starts
Cancel ==
    \/ Sigint
    \/ HandlerPrint
    \/ HandlerCloseCall
    \/ HandlerCloseReturn
    \/ HandlerExit

\* a session the operator does not interrupt
Next == Main \/ Callbacks(SerialThreads, MaxEvents)

Spec == Init /\ [][Next]_vars

\* a session with interrupts, over its first MaxCancelEvents callbacks
CancelNext == Main \/ Callbacks(SerialThreads, MaxCancelEvents) \/ Cancel

SpecCancel == Init /\ [][CancelNext]_vars

(***************************************************************************)
(* Callbacks of one listener from several threads of the engine.  The      *)
(* methods of MyListener take no lock (lines 24-52), so when the engine    *)
(* calls them side by side for different instance names their steps        *)
(* interleave freely.                                                      *)
(***************************************************************************)
\* the engine calls a method of listener `l` while other callbacks of `l`,
\* for other names, may be running
DispatchConcurrent(th, l, method, name, budget) ==
    /\ Browsing
    /\ events < budget
    /\ cb[th].pc = "idle"
    /\ l \in 1..Len(listeners)
    /\ \A o \in Threads \ {th} :
            cb[o].pc = "idle" \/ cb[o].listener # l \/ cb[o].name # name
    /\ cb' = [cb EXCEPT ![th] =
                [IdleFrame EXCEPT
                    !.pc = method,
                    !.method = method,
                    !.listener = l,
                    !.service_type = listeners[l].browse_type,
                    !.name = name,
                    !.pre = Snapshot(listeners[l])]]
    /\ events' = events + 1
    /\ UNCHANGED <<debug, NetBIOS, session_vars, listeners, norm>>

\* the steps of the callbacks on the threads `T`, dispatched concurrently
ConcCallbacks(T, budget) ==
    \/ \E th \in T, l \in 1..MaxBrowsers, m \in Methods, n \in InstanceNames :
            DispatchConcurrent(th, l, m, n, budget)
    \/ \E th \in T, m \in Methods, n \in TypeNames : DispatchType(th, m, n, budget)
    \/ \E th \in T : TypeAddService(th)
    \/ \E th \in T : TypePass(th)
    \/ \E th \in T : AddService(th)
    \/ \E th \in T : UpdateLookup(th)
    \/ \E th \in T : ResolveDns(th)
    \/ \E th \in T : NbNew(th)
    \/ \E th \in T : NbQuery(th)
    \/ \E th \in T : NbClose(th)
    \/ \E th \in T : Store(th)
    \/ \E th \in T : MaxWrite(th)
    \/ \E th \in T : RemoveCheck(th)
    \/ \E th \in T : RemoveDel(th)
    \/ \E th \in T : Return(th)

\* a session whose first MaxConcEvents callbacks run on two threads
ConcNext == Main \/ ConcCallbacks(Threads, MaxConcEvents)

SpecConc == Init /\ [][ConcNext]_vars

(***************************************************************************)
(* The normalizers on their own: every input up to MaxNormLen characters   *)
(* over a letter and the separator.                                        *)
(***************************************************************************)
NormAlphabet == {"a", "."}

NormInputs == UNION {[1..k -> NormAlphabet] : k \in 0..MaxNormLen}

\* the three normalizers of the source, in the order of the file
Normalizers(x) ==
    <<MyListener_format_service_type(x),
      MyListener_format_service_name(x),
      ServiceTypeListener_format_service_type(x)>>

NormInit ==
    /\ Start(FALSE, FALSE)
    /\ norm \in {[NormIdle EXCEPT !.stage = "input", !.input = x] : x \in NormInputs}

\* normalize the input, and the input with one more separator
NormApply ==
    /\ norm.stage = "input"
    /\ norm' = [norm EXCEPT !.stage = "applied",
                            !.out = Normalizers(norm.input),
                            !.out_dot = Normalizers(norm.input \o <<".">>)]
    /\ UNCHANGED <<debug, NetBIOS, session_vars, listeners, cb, events>>

\* normalize each result again, with the normalizer that produced it
NormApplyAgain ==
    /\ norm.stage = "applied"
    /\ norm' = [norm EXCEPT !.stage = "reapplied",
                            !.again = <<MyListener_format_service_type(norm.out[1]),
                                        MyListener_format_service_name(norm.out[2]),
                                        ServiceTypeListener_format_service_type(norm.out[3])>>]
    /\ UNCHANGED <<debug, NetBIOS, session_vars, listeners, cb, events>>

NormNext == NormApply \/ NormApplyAgain

SpecNorm == NormInit /\ [][NormNext]_vars

(***************************************************************************)
(* Properties.                                                             *)
(***************************************************************************)
\* the record stored for name m, or None
Lookup(services, m) == IF m \in DOMAIN services THEN services[m] ELSE None

\* resolve_device_name has been called by the callback and has ended, by a
\* return or by an exception
ResolverEnded(f) ==
    /\ f.dns # "none"
    /\ f.pc \in {"store", "max_write", "done"}

\* C1: the number of instance browsers started equals the number of distinct
\* normalized type names discovered: a second discovery of a type whose name
\* normalizes to a known one starts no browser.
C1_OneBrowsePerType ==
    Len(listeners) = Cardinality({listeners[i].browse_type : i \in DOMAIN listeners})

\* C2: the resolver's precedence, for every combination of outcomes: a
\* successful reverse lookup is the result and no NetBIOS client is made or
\* queried; after a failed reverse lookup a successful NetBIOS query is the
\* result; if both fail, or the reverse lookup fails and NetBIOS is absent, the
\* result is "Unknown".
C2_Precedence ==
    \A th \in Threads :
        LET f == cb[th] IN
        /\ f.dns = "hostname" => f.nb = "none" /\ f.nb_query = "none"
        /\ ResolverEnded(f) =>
            /\ f.dns = "hostname" => f.device_name = f.dns_host
            /\ (f.dns = "failed" /\ NetBIOS /\ f.nb_query = "name") => f.device_name = f.nb_name
            /\ (f.dns = "failed" /\ (~NetBIOS \/ f.nb_query # "name")) => f.device_name = sUnknown

\* C3: resolve_device_name never lets an error reach its caller, whichever of
\* the reverse lookup, the construction of the NetBIOS client, its query or its
\* release fails.
C3_ResolverNeverRaises ==
    \A th \in Threads : ResolverEnded(cb[th]) => cb[th].raised = "none" /\ Truthy(cb[th].device_name)

\* C4: an update for n followed immediately by a removal of n leaves n absent
\* from the listener's registry, and every other name has the record it had
\* before the two events.
C4_UpdateThenRemove ==
    \A th \in Threads :
        LET f == cb[th] IN
        (f.listener # 0 /\ f.method = "remove_service" /\ f.pc = "done") =>
            LET l == listeners[f.listener] IN
            l.last_update.name = f.name =>
                /\ f.name \notin DOMAIN l.services
                /\ \A m \in InstanceNames \ {f.name} :
                        Lookup(l.services, m) = Lookup(l.last_update.services, m)

\* the case of C4 with a record of n to delete and another name registered
C4_Witness ==
    \E th \in Threads :
        /\ cb[th].listener # 0 /\ cb[th].method = "remove_service" /\ cb[th].pc = "done"
        /\ cb[th].found
        /\ listeners[cb[th].listener].last_update.name = cb[th].name
        /\ \E m \in InstanceNames \ {cb[th].name} :
                /\ m \in DOMAIN listeners[cb[th].listener].services
                /\ m \in DOMAIN listeners[cb[th].listener].last_update.services

\* C5: an update for n1 whose info has no address leaves the registry and the
\* running maximum as it found them and renders no line, so the record and
\* the line of any other name n2 are what n2's own update made them: the
\* address of n2's info and format_output of n2's own name, address and
\* device name.
C5_NoAddressIndependent ==
    \A th \in Threads :
        LET f == cb[th] IN
        (f.listener # 0 /\ f.method # "remove_service" /\ f.pc = "done" /\ f.raised = "none") =>
            LET l == listeners[f.listener] IN
            /\ (f.reply = "info" /\ f.addresses = <<>>) =>
                /\ Snapshot(l) = f.pre
                /\ \A i \in 1..Len(f.printed) : f.printed[i].text # "{format_output}\r"
            /\ (f.reply = "info" /\ f.addresses # <<>>) =>
                /\ Lookup(l.services, f.name) = inet_ntoa(f.addresses[1])
                /\ \A m \in InstanceNames \ {f.name} :
                        Lookup(l.services, m) = Lookup(f.pre.services, m)
                /\ f.printed[Len(f.printed)] =
                        Line("{format_output}\r",
                             <<format_output(15, Strip(f.name), inet_ntoa(f.addresses[1]),
                                             Strip(f.device_name))
                               \o <<"\r">>>>)

\* the case of C5: an update without address for n1 ends while another name
\* n2 is registered
C5_Witness ==
    \E th \in Threads :
        /\ cb[th].listener # 0 /\ cb[th].method # "remove_service" /\ cb[th].pc = "done"
        /\ cb[th].reply = "info" /\ cb[th].addresses = <<>>
        /\ \E m \in InstanceNames \ {cb[th].name} :
                m \in DOMAIN listeners[cb[th].listener].services

\* C6: no error while handling an instance event leaves the callback as an
\* exception: whatever the engine, the reverse lookup and the NetBIOS step
\* do, the callback ends normally and its thread can return to the engine.
C6_CallbackEndsNormally ==
    \A th \in Threads :
        (cb[th].listener # 0 /\ cb[th].pc = "done") => cb[th].raised = "none"

\* C7: zeroconf.close() is called at most once in a run, and only after an
\* interrupt.
C7_CloseAtMostOnce == close_calls <= 1 /\ (close_calls > 0 => signals > 0)

\* C8: a process that ends on an interrupt after the handle was opened has
\* closed the handle and ends with exit status 0.
C8_CancelClosesThenExits ==
    (exit_status # "running" /\ zeroconf # "unset") =>
        zeroconf = "closed" /\ exit_status = "0"

\* C9: once resolve_device_name has ended, by whichever way out of the
\* NetBIOS step, no NetBIOS client it constructed is left without its close()
\* having been called.
C9_NetBIOSReleased ==
    \A th \in Threads : ResolverEnded(cb[th]) => cb[th].nb # "open"

\* the case of C9: the query raised and the client was closed
C9_Witness ==
    \E th \in Threads :
        /\ ResolverEnded(cb[th]) /\ cb[th].nb_query = "Exception" /\ cb[th].nb = "closed"
        /\ cb[th].device_name = sUnknown

\* C10: each normalizer appends the separator only when it is missing, its
\* result ends with the separator, normalizing twice is normalizing once, a
\* name without trailing separator and the same name with one normalize to the
\* same string, and the three normalizers agree.
C10_Normalize ==
    /\ norm.stage \in {"applied", "reapplied"} =>
        /\ \A i \in 1..3 :
            /\ EndsWith(norm.out[i], ".")
            /\ norm.out[i] = IF EndsWith(norm.input, ".") THEN norm.input
                             ELSE norm.input \o <<".">>
        /\ norm.out[1] = norm.out[3] /\ norm.out[2] = norm.out[3]
        /\ ~EndsWith(norm.input, ".") => norm.out_dot = norm.out
    /\ norm.stage = "reapplied" => norm.again = norm.out

\* the case of C10: a name without separator, normalized twice
C10_Witness ==
    /\ norm.stage = "reapplied"
    /\ norm.input = <<"a", ".", "a">>
    /\ norm.again = <<norm.input \o <<".">>, norm.input \o <<".">>, norm.input \o <<".">>>>

\* C11: an add or update whose lookup gives no address (the engine raises
\* BadTypeInNameException, returns no info, or returns an info with an empty
\* address list) ends with the registry and max_name_length of its listener
\* exactly as the callback found them, and never reaches the name resolver:
\* no reverse lookup, no NetBIOS client, no device name.
C11_FailedUpdateLeavesState ==
    \A th \in Threads :
        LET f == cb[th] IN
        (/\ f.listener # 0 /\ f.method = "update_service" /\ f.reply # "none"
         /\ f.reply = "info" => f.addresses = <<>>) =>
            /\ f.pc = "done" /\ f.raised = "none"
            /\ Snapshot(listeners[f.listener]) = f.pre
            /\ f.dns = "none" /\ f.nb = "none" /\ f.nb_query = "none"
            /\ f.address = None /\ f.device_name = None

\* the case of C11: the engine raises BadTypeInNameException for an update
\* on a listener whose registry holds a record
C11_Witness ==
    \E th \in Threads :
        /\ cb[th].listener # 0 /\ cb[th].method = "update_service"
        /\ cb[th].reply = "BadTypeInNameException" /\ cb[th].pc = "done"
        /\ listeners[cb[th].listener].services # <<>>
        /\ listeners[cb[th].listener].max_name_length > 0

\* C12: update_service and remove_service of the type listener do nothing.
\* From the engine's call to the return of the callback no step changes the
\* browsers that were started, their types, or the registry or running
\* maximum of any instance listener, and the callback prints no line.
C12_TypePassNoOp ==
    [][\A th \in Threads :
        LET TypeEvent(f) == /\ f.pc # "idle" /\ f.listener = 0
                            /\ f.method \in {"update_service", "remove_service"}
        IN  (TypeEvent(cb[th]) \/ TypeEvent(cb'[th])) =>
                /\ listeners' = listeners
                /\ cb'[th].printed = <<>>]_vars

\* the case of C12: a remove_service of the type listener has run while a
\* browser of the removed type holds a record
C12_Witness ==
    \E th \in Threads :
        /\ cb[th].listener = 0 /\ cb[th].method = "remove_service" /\ cb[th].pc = "done"
        /\ \E l \in 1..Len(listeners) :
            /\ listeners[l].services # <<>>
            /\ listeners[l].browse_type = ServiceTypeListener_format_service_type(cb[th].name)

\* C13: insertion and removal use one normalized key: when a remove_service
\* has ended, the registry holds no record under any name that
\* format_service_name normalizes to the same form as the removed name
\* (inserted as "X" and removed as "X.", or the reverse).
C13_NormalizedKey ==
    \A th \in Threads :
        LET f == cb[th] IN
        (f.listener # 0 /\ f.method = "remove_service" /\ f.pc = "done") =>
            \A m \in InstanceNames :
                MyListener_format_service_name(m) = MyListener_format_service_name(f.name)
                    => m \notin DOMAIN listeners[f.listener].services

\* C14: concurrent callbacks of one listener for different names behave as
\* if serialized: when two updates for n1 # n2 that each got an address and
\* a device name have both ended, both records are in the registry and
\* max_name_length is at least the longer of the two names.
C14_NoLostUpdate ==
    \A t1, t2 \in Threads :
        LET f1 == cb[t1]
            f2 == cb[t2]
            Stored(f) == /\ f.method = "update_service" /\ f.pc = "done"
                         /\ f.raised = "none" /\ Truthy(f.address)
        IN  (/\ t1 # t2 /\ f1.listener # 0 /\ f1.listener = f2.listener
             /\ Stored(f1) /\ Stored(f2) /\ f1.name # f2.name) =>
                LET l == listeners[f1.listener] IN
                /\ f1.name \in DOMAIN l.services
                /\ f2.name \in DOMAIN l.services
                /\ l.max_name_length >= Max(Len(f1.name), Len(f2.name))

\* C15: every add or update whose lookup gives no address prints exactly one
\* warning line and no resolution line, with and without the debug flag: one
\* warning for a BadTypeInNameException, one for a missing info, one for an
\* info without address.
C15_FailedUpdateWarns ==
    \A th \in Threads :
        LET f == cb[th]
            warnings ==
                {"{Fore.RED}BadTypeInNameException for type: {formatted_type}, name: {formatted_name} - {e}",
                 "{Fore.YELLOW}No info found for service {name}",
                 "{Fore.YELLOW}Service {name} has no address"}
        IN  (/\ f.listener # 0 /\ f.method = "update_service" /\ f.pc = "done"
             /\ f.reply # "none"
             /\ f.reply = "info" => f.addresses = <<>>) =>
                /\ Cardinality({i \in 1..Len(f.printed) : f.printed[i].text \in warnings}) = 1
                /\ \A i \in 1..Len(f.printed) : f.printed[i].text # "{format_output}\r"

\* C16: a name is in the registry exactly when an add or update for it got
\* an address from the engine and no removal for it was handled since.  Event
\* by event: when a callback has ended, the name of an update that got an
\* address is in the registry, the name of a removal is not, and every other
\* name is in the registry exactly when it was there before the callback.
C16_RegistryMembership ==
    \A th \in Threads :
        LET f == cb[th] IN
        (f.listener # 0 /\ f.pc = "done") =>
            \A m \in InstanceNames :
                (m \in DOMAIN listeners[f.listener].services) <=>
                    IF f.method = "update_service" /\ m = f.name
                       /\ f.reply = "info" /\ f.addresses # <<>>
                    THEN TRUE
                    ELSE IF f.method = "remove_service" /\ m = f.name
                    THEN FALSE
                    ELSE m \in DOMAIN f.pre.services

\* C17: max_name_length never decreases over add, update and remove events,
\* not even when the longest name is removed, and it is the maximum of 0 and
\* the lengths of the names stored so far.  While a callback runs the value
\* is at least what the callback found, and outside the assignment of line 44
\* it equals the length of the longest name ever stored.
C17_MaxNameLength ==
    \A l \in 1..Len(listeners) :
        /\ \A th \in Threads :
              (cb[th].pc # "idle" /\ cb[th].listener = l) =>
                  listeners[l].max_name_length >= cb[th].pre.max_name_length
        /\ (\A th \in Threads : ~(cb[th].listener = l /\ cb[th].pc = "max_write")) =>
              listeners[l].max_name_length = listeners[l].longest_stored

\* the case of C17: the longest name has been removed and a shorter one is
\* in the registry, while max_name_length is still the length of the longest
C17_Witness ==
    \E th \in Threads :
        /\ cb[th].listener # 0 /\ cb[th].method = "remove_service" /\ cb[th].pc = "done"
        /\ cb[th].found /\ cb[th].name = N_Long
        /\ LET l == listeners[cb[th].listener] IN
            /\ N_Long \notin DOMAIN l.services
            /\ N_X \in DOMAIN l.services
            /\ l.max_name_length = Len(N_Long)

C19_RemoveNoticeIffDeleted ==
    \A th \in Threads :
        LET f == cb[th] IN
        (f.listener # 0 /\ f.method = "remove_service" /\ f.pc = "done") =>
            LET l == listeners[f.listener] IN
            /\ l.max_name_length = f.pre.max_name_length
            /\ f.raised = "none"
            /\ IF f.name \in DOMAIN f.pre.services
               THEN /\ DOMAIN l.services = DOMAIN f.pre.services \ {f.name}
                    /\ \A m \in DOMAIN l.services : l.services[m] = f.pre.services[m]
                    /\ f.printed = <<Line("{Fore.RED}Service {name} removed", <<f.name>>)>>
               ELSE /\ l.services = f.pre.services
                    /\ f.printed = <<>>

\* the case of C19: a removal of a name that is not in the registry has
\* ended right after a removal, while the registry holds another record
C19_Witness ==
    \E th \in Threads :
        /\ cb[th].listener # 0 /\ cb[th].method = "remove_service" /\ cb[th].pc = "done"
        /\ ~cb[th].found
        /\ listeners[cb[th].listener].last_update = NoUpdate
        /\ listeners[cb[th].listener].max_name_length > 0
        /\ listeners[cb[th].listener].services # <<>>

\* C20: the line of a resolved instance shows the service name, the IP and
\* the device name in this order; the address is padded to the fixed width of
\* 15 and the service name is padded from the running max_name_length, so
\* that for a name of any length at least one space separates the name
\* column from the IP column.
C20_ColumnsSeparated ==
    \A th \in Threads :
        LET f == cb[th] IN
        (/\ f.listener # 0 /\ f.method = "update_service" /\ f.pc = "done"
         /\ f.raised = "none" /\ f.reply = "info" /\ f.addresses # <<>>) =>
            LET line == f.printed[Len(f.printed)].args[1]
                name_column == <<"Fore.GREEN">> \o sService \o Strip(f.name)
                ip_column == <<"Fore.CYAN">> \o sIP \o Strip(f.address)
                device_column == <<"Fore.MAGENTA">> \o sName \o Strip(f.device_name)
            IN  \E gap \in 1..(60 + 4) :
                    line = name_column \o Spaces(gap) \o ip_column
                           \o Spaces(15 - Len(Strip(f.address)) + 4)
                           \o device_column \o <<"\r">>

=============================================================================
